---- MODULE Spec2Model ----
(***************************************************************************)
(* Model of mtgcalc.py: the play-booster sampler (PlayBooster.get_cards,   *)
(* driven by box_value), the review reconciliation of cheatsheet, the      *)
(* free-form review parser (SetReview.parse) and group_sheet.              *)
(*                                                                         *)
(* Strings the code inspects character by character (names, mana costs,    *)
(* review lines) are sequences of one-character strings.                   *)
(***************************************************************************)
EXTENDS Integers, Sequences, FiniteSets, Bags, TLC

VARIABLES
    \* ---- pack / box_value ----
    set_cards,        \* the fetched card list (Scry().get_set_cards)
    card_set_rarity,  \* rarity -> reference of its bucket list (get_set_rarity)
    heap,             \* list reference -> contents of that list object
    commons,          \* get_cards local: reference of the working list
    uncommons,        \* get_cards local: reference of the working list
    pack_cards,       \* get_cards local: the pack being filled
    c,                \* get_cards local: loop index of the current for loop
    rare_type,        \* get_cards local
    rtype,            \* get_cards local: the wildcard roll
    pc,               \* position inside get_cards
    pidx,             \* box_value: index of the pack being opened
    outcome,          \* "none", "returned", "KeyError", "IndexError"
    \* ---- SetReview.parse ----
    text,             \* the lines of the review document (text.splitlines())
    li,               \* number of lines the for loop has consumed
    cards,            \* parse local: the entries collected
    card,             \* parse local: the open card ({} when none)
    group,            \* parse local: the current colour group
    buf,              \* parse local: the non-blank lines seen
    parse_pc,         \* "loop" or "returned"
    \* ---- cheatsheet / group_sheet ----
    reviews,          \* the parsed review entries
    fetched,          \* the cards Scry().get_set_cards returned
    named,            \* dict: lowercased card name -> Card
    reviewed,         \* dict: review name -> review entry
    todo,             \* the key list the running for loop iterates (list(d))
    found,            \* cheatsheet local
    not_found,        \* cheatsheet local
    grouped,          \* group_sheet local: group -> list of Cards
    sheet_pc          \* "reconcile", "propagate", "group", "grouped"

boosterVars == <<set_cards, card_set_rarity, heap, commons, uncommons,
                 pack_cards, c, rare_type, rtype, pc, pidx, outcome>>

parseVars == <<text, li, cards, card, group, buf, parse_pc>>

sheetVars == <<reviews, fetched, named, reviewed, todo, found, not_found,
               grouped, sheet_pc>>

vars == <<boosterVars, parseVars, sheetVars>>

\* ------------------------------------------------------------------------
\* Bounds of the model
\* ------------------------------------------------------------------------
MaxCommon == 7
MaxUncommon == 4
MaxRare == 1
MaxMythic == 1
\* packs opened by one box_value run in the model (the code opens 36 per box)
MaxPacks == 2
\* lines of a review document
MaxLines == 3
\* review entries handed to cheatsheet
MaxReviews == 2
\* cards of the fetched set handed to cheatsheet
MaxCards == 4

\* ------------------------------------------------------------------------
\* Program constants
\* ------------------------------------------------------------------------
pack_size == 14
CommonSlots == 6
UncommonSlots == 3
RareSlots == 1
WildcardSlots == 2

Rarities == {"common", "uncommon", "rare", "mythic"}

None == "None"

\* ------------------------------------------------------------------------
\* Python list helpers
\* ------------------------------------------------------------------------
RECURSIVE IndexOf(_, _, _)
\* list.index: position of the first element equal to x at or after i, 0 if none
IndexOf(s, x, i) ==
    IF i > Len(s) THEN 0
    ELSE IF s[i] = x THEN i
    ELSE IndexOf(s, x, i + 1)

RemoveAt(s, i) == SubSeq(s, 1, i - 1) \o SubSeq(s, i + 1, Len(s))

\* list.remove(x): nothing is removed (a mutant of ListRemove)
ListRemoveNothing(s, x) == s

\* list.remove(x): removes the first element equal to x
ListRemove(s, x) == RemoveAt(s, IndexOf(s, x, 1))

\* list(x) returning x itself (a mutant of ListCopyRef)
ListAliasRef(src, fresh) == src

\* list(x): a new list object; the reference of the copy is the fresh one
ListCopyRef(src, fresh) == fresh

SeqToBag(s) == [x \in {s[i] : i \in DOMAIN s} |-> Cardinality({i \in DOMAIN s : s[i] = x})]

\* ------------------------------------------------------------------------
\* get_set_rarity
\* ------------------------------------------------------------------------
\* rarities.setdefault(c.rarity, []).append(c): one key per rarity that occurs
RarityKeys(cs) == {cs[i].rarity : i \in DOMAIN cs}

RarityBucket(cs, r) == SelectSeq(cs, LAMBDA cd : cd.rarity = r)

\* the dictionary get_set_rarity returns: key -> list object (named by its key)
get_set_rarity(cs) == [r \in RarityKeys(cs) |-> r]

\* the list objects get_set_rarity builds
BucketHeap(cs) ==
    [ref \in Rarities \cup {"commons", "uncommons"} |->
        IF ref \in RarityKeys(cs) THEN RarityBucket(cs, ref) ELSE <<>>]

\* card_set_rarity[r] with every key present (a mutant of KeyMissing)
KeyNeverMissing(d, k) == FALSE

\* card_set_rarity[r] raises KeyError
KeyMissing(d, k) == k \notin DOMAIN d

\* the list object card_set_rarity[r] refers to
BucketRef(r) == IF r \in DOMAIN card_set_rarity THEN card_set_rarity[r] ELSE r

\* the contents of the bucket card_set_rarity[r]
Bucket(r) == IF r \in DOMAIN card_set_rarity THEN heap[card_set_rarity[r]] ELSE <<>>

\* ------------------------------------------------------------------------
\* The fetched sets the sampler is run on
\* ------------------------------------------------------------------------
MakeCards(r, n) == [i \in 1..n |-> [rarity |-> r, name |-> i % 2]]

SetCardLists ==
    { MakeCards("common", nc) \o MakeCards("uncommon", nu)
        \o MakeCards("rare", nr) \o MakeCards("mythic", nm) :
        nc \in {0, 1, MaxCommon}, nu \in {0, 1, MaxUncommon},
        nr \in {0, MaxRare}, nm \in {0, MaxMythic} }

\* ------------------------------------------------------------------------
\* PlayBooster.get_cards
\* ------------------------------------------------------------------------
BoosterInit ==
    /\ set_cards \in SetCardLists
    /\ card_set_rarity = get_set_rarity(set_cards)
    /\ heap = BucketHeap(set_cards)
    /\ commons = None
    /\ uncommons = None
    /\ pack_cards = <<>>
    /\ c = 0
    /\ rare_type = None
    /\ rtype = -1
    /\ pc = "copy_commons"
    /\ pidx = 0
    /\ outcome = "none"

Raise(exc) ==
    /\ outcome' = exc
    /\ pc' = "raised"

\* commons = list(card_set_rarity["common"])
CopyCommons ==
    /\ pc = "copy_commons"
    /\ IF KeyMissing(card_set_rarity, "common")
       THEN /\ Raise("KeyError")
            /\ UNCHANGED <<commons, heap, c>>
       ELSE /\ commons' = ListCopyRef(BucketRef("common"), "commons")
            /\ heap' = [heap EXCEPT ![commons'] = Bucket("common")]
            /\ c' = 0
            /\ pc' = "draw_commons"
            /\ UNCHANGED outcome
    /\ UNCHANGED <<set_cards, card_set_rarity, uncommons, pack_cards, rare_type, rtype, pidx>>

\* one iteration of `for c in range(6)`; the last one leaves the loop
DrawCommon ==
    /\ pc = "draw_commons"
    /\ IF heap[commons] = <<>>
       THEN /\ Raise("IndexError")
            /\ UNCHANGED <<heap, pack_cards, c>>
       ELSE \E i \in DOMAIN heap[commons] :
            LET common_card == heap[commons][i] IN
            /\ heap' = [heap EXCEPT ![commons] = ListRemove(@, common_card)]
            /\ pack_cards' = Append(pack_cards, common_card)
            /\ c' = c + 1
            /\ pc' = IF c' < CommonSlots THEN pc ELSE "copy_uncommons"
            /\ UNCHANGED outcome
    /\ UNCHANGED <<set_cards, card_set_rarity, commons, uncommons, rare_type, rtype, pidx>>

\* uncommons = list(card_set_rarity["uncommon"])
CopyUncommons ==
    /\ pc = "copy_uncommons"
    /\ IF KeyMissing(card_set_rarity, "uncommon")
       THEN /\ Raise("KeyError")
            /\ UNCHANGED <<uncommons, heap, c>>
       ELSE /\ uncommons' = ListCopyRef(BucketRef("uncommon"), "uncommons")
            /\ heap' = [heap EXCEPT ![uncommons'] = Bucket("uncommon")]
            /\ c' = 0
            /\ pc' = "draw_uncommons"
            /\ UNCHANGED outcome
    /\ UNCHANGED <<set_cards, card_set_rarity, commons, pack_cards, rare_type, rtype, pidx>>

\* one iteration of `for c in range(3)`; the last one leaves the loop
DrawUncommon ==
    /\ pc = "draw_uncommons"
    /\ IF heap[uncommons] = <<>>
       THEN /\ Raise("IndexError")
            /\ UNCHANGED <<heap, pack_cards, c>>
       ELSE \E i \in DOMAIN heap[uncommons] :
            LET uncommon_card == heap[uncommons][i] IN
            /\ heap' = [heap EXCEPT ![uncommons] = ListRemove(@, uncommon_card)]
            /\ pack_cards' = Append(pack_cards, uncommon_card)
            /\ c' = c + 1
            /\ pc' = IF c' < UncommonSlots THEN pc ELSE "copy_rares"
            /\ UNCHANGED outcome
    /\ UNCHANGED <<set_cards, card_set_rarity, commons, uncommons, rare_type, rtype, pidx>>

\* mythics = list(card_set_rarity["mythic"]); rares = list(card_set_rarity["rare"])
\* (both copies are never used again)
CopyRares ==
    /\ pc = "copy_rares"
    /\ IF KeyMissing(card_set_rarity, "mythic") \/ KeyMissing(card_set_rarity, "rare")
       THEN /\ Raise("KeyError")
            /\ UNCHANGED c
       ELSE /\ c' = 0
            /\ pc' = "rare_slot"
            /\ UNCHANGED outcome
    /\ UNCHANGED <<set_cards, card_set_rarity, heap, commons, uncommons,
                   pack_cards, rare_type, rtype, pidx>>

\* rare_type = "rare"; if random.randint(0, 100) < 13: rare_type = "mythic"
RareOrMythic(roll) == IF roll < 13 THEN "mythic" ELSE "rare"

\* pack_cards.append(random.choice(card_set_rarity[rare_type])), then the next
\* iteration of a loop of `slots` iterations or, after the last, what follows
\* the loop: the position `after` with the outcome `result`
ChooseFrom(tier, slots, after, result) ==
    IF KeyMissing(card_set_rarity, tier)
    THEN /\ Raise("KeyError")
         /\ UNCHANGED <<pack_cards, c>>
    ELSE IF Bucket(tier) = <<>>
    THEN /\ Raise("IndexError")
         /\ UNCHANGED <<pack_cards, c>>
    ELSE \E i \in DOMAIN Bucket(tier) :
         /\ pack_cards' = Append(pack_cards, Bucket(tier)[i])
         /\ c' = IF c + 1 < slots THEN c + 1 ELSE 0
         /\ pc' = IF c + 1 < slots THEN pc ELSE after
         /\ outcome' = IF c + 1 < slots THEN outcome ELSE result

\* the values of random.randint(0, 100) the model draws: both sides of `< 13`
MythicRolls == {0, 12, 13, 100}

\* the values of random.randint(0, 10)
WildcardRolls == 0..10

\* one iteration of `for c in range(1)`; the last one leaves the loop
RareSlot ==
    /\ pc = "rare_slot"
    /\ \E roll \in MythicRolls :
            /\ rare_type' = RareOrMythic(roll)
            /\ ChooseFrom(rare_type', RareSlots, "wildcards", "none")
    /\ UNCHANGED <<set_cards, card_set_rarity, heap, commons, uncommons, rtype, pidx>>

\* the tier a wildcard roll selects, wrongly sending 10 to common
\* (a mutant of WildcardTier)
WildcardTierOnlySixToEight(roll, mythic_roll) ==
    IF roll = 9 THEN RareOrMythic(mythic_roll)
    ELSE IF roll >= 6 /\ roll <= 8 THEN "uncommon"
    ELSE "common"

\* the if / elif / else on rtype
WildcardTier(roll, mythic_roll) ==
    IF roll = 9 THEN RareOrMythic(mythic_roll)
    ELSE IF roll >= 6 THEN "uncommon"
    ELSE "common"

\* one iteration of `for c in range(2)`; the last one leaves the loop and
\* get_cards returns pack_cards
Wildcard ==
    /\ pc = "wildcards"
    /\ \E roll \in WildcardRolls :
        \* random.randint(0, 100) is called only when rtype == 9
        \E mythic_roll \in IF roll = 9 THEN MythicRolls ELSE {100} :
            /\ rtype' = roll
            /\ rare_type' = WildcardTier(roll, mythic_roll)
            /\ ChooseFrom(rare_type', WildcardSlots, "done", "returned")
    /\ UNCHANGED <<set_cards, card_set_rarity, heap, commons, uncommons, pidx>>

\* box_value: the next PlayBooster().get_cards(cards_by_rarity) of the pidx loop
NextPack ==
    /\ pc = "done"
    /\ pidx + 1 < MaxPacks
    /\ pidx' = pidx + 1
    /\ commons' = None
    /\ uncommons' = None
    /\ pack_cards' = <<>>
    /\ c' = 0
    /\ rare_type' = None
    /\ rtype' = -1
    /\ pc' = "copy_commons"
    /\ outcome' = "none"
    /\ UNCHANGED <<set_cards, card_set_rarity, heap>>


\* ------------------------------------------------------------------------
\* Python str helpers; a str is a sequence of one-character strings
\* ------------------------------------------------------------------------
UpperAlphabet == <<"A", "B", "C", "D", "E", "F", "G", "H", "I", "J", "K", "L", "M",
                   "N", "O", "P", "Q", "R", "S", "T", "U", "V", "W", "X", "Y", "Z">>

LowerAlphabet == <<"a", "b", "c", "d", "e", "f", "g", "h", "i", "j", "k", "l", "m",
                   "n", "o", "p", "q", "r", "s", "t", "u", "v", "w", "x", "y", "z">>

Digits == {"0", "1", "2", "3", "4", "5", "6", "7", "8", "9"}

LowerChar(ch) ==
    IF \E k \in DOMAIN UpperAlphabet : UpperAlphabet[k] = ch
    THEN LowerAlphabet[CHOOSE k \in DOMAIN UpperAlphabet : UpperAlphabet[k] = ch]
    ELSE ch

\* str.lower
Lower(str) == [k \in DOMAIN str |-> LowerChar(str[k])]

\* ch in str
Contains(str, ch) == \E k \in DOMAIN str : str[k] = ch

\* str.count(ch)
Count(str, ch) == Cardinality({k \in DOMAIN str : str[k] = ch})

\* str.startswith(prefix)
StartsWith(str, prefix) ==
    /\ Len(prefix) <= Len(str)
    /\ SubSeq(str, 1, Len(prefix)) = prefix

\* str.strip()
Strip(str) ==
    LET solid == {k \in DOMAIN str : str[k] # " "}
        lo == CHOOSE k \in solid : \A j \in solid : k <= j
        hi == CHOOSE k \in solid : \A j \in solid : j <= k
    IN IF solid = {} THEN <<>> ELSE SubSeq(str, lo, hi)

\* str.isdecimal()
IsDecimal(str) == str # <<>> /\ \A k \in DOMAIN str : str[k] \in Digits

\* index of the first ch of str (the str holds one)
Find(str, ch) == CHOOSE k \in DOMAIN str : str[k] = ch /\ \A j \in 1..(k - 1) : str[j] # ch

\* str.split(ch, 1) of a str holding ch
Split1(str, ch) ==
    <<SubSeq(str, 1, Find(str, ch) - 1), SubSeq(str, Find(str, ch) + 1, Len(str))>>

\* str.split(ch, 2) of a str holding ch at least twice
Split2(str, ch) ==
    LET first == Split1(str, ch)
        second == Split1(first[2], ch)
    IN <<first[1], second[1], second[2]>>

\* ------------------------------------------------------------------------
\* SetReview.parse
\* ------------------------------------------------------------------------
colors ==
    { <<"w", "h", "i", "t", "e">>, <<"b", "l", "a", "c", "k">>, <<"b", "l", "u", "e">>,
      <<"g", "r", "e", "e", "n">>,
      <<"m", "u", "l", "t", "i", "c", "o", "l", "o", "r", "e", "d">>,
      <<"l", "a", "n", "d", "s">> }

\* the review lines documents are made of
ReviewLines ==
    { <<"1", "-", "A", "-", "3">>,                      \* "1-A-3"
      <<"2", " ", "-", " ", "B", " ", "-", " ", "4">>,  \* "2 - B - 4"
      <<"o", "k">>,                                     \* "ok"
      <<"x", "-", "y">>,                                \* "x-y"
      <<"n", ":", "x">>,                                \* "n:x"
      <<"a", "-", "b", "-", "c">>,                      \* "a-b-c"
      <<"L", "a", "n", "d", "s", ":">>,                 \* "Lands:"
      <<" ">> }                                         \* " "

Documents == UNION { [1..n -> ReviewLines] : n \in 0..MaxLines }

EmptyDict == <<>>

\* card.setdefault("notes", []).append(l)
AppendNote(cd, l) ==
    IF "notes" \in DOMAIN cd
    THEN [cd EXCEPT !.notes = Append(@, l)]
    ELSE cd @@ ("notes" :> <<l>>)

\* the branch `":" in l`
IsColonLine(l) == Contains(l, ":")

\* the branch `"-" in l and l.count("-") in (2, 3)`
IsDashLine(l) == Contains(l, "-") /\ Count(l, "-") \in {2, 3}

\* check, remain = l.split("-", 1); check.strip().isdecimal()
CheckIsDecimal(l) == IsDecimal(Strip(Split1(l, "-")[1]))

\* the card dict built from a numbered line
NewCard(l, grp) ==
    [number |-> Strip(Split2(l, "-")[1]),
     name |-> Strip(Split2(l, "-")[2]),
     rating |-> Strip(Split2(l, "-")[3]),
     color |-> grp]

ParseInit ==
    /\ text \in Documents
    /\ li = 0
    /\ cards = <<>>
    /\ card = EmptyDict
    /\ group = None
    /\ buf = <<>>
    /\ parse_pc = "loop"

ParseIdle ==
    /\ text = <<>>
    /\ li = 0
    /\ cards = <<>>
    /\ card = EmptyDict
    /\ group = None
    /\ buf = <<>>
    /\ parse_pc = "idle"

\* `if not l.strip(): continue`
ParseBlank ==
    /\ parse_pc = "loop"
    /\ li < Len(text)
    /\ Strip(text[li + 1]) = <<>>
    /\ li' = li + 1
    /\ UNCHANGED <<text, cards, card, group, buf, parse_pc>>

\* a line holding ":": group becomes the first colour the set iteration yields
ParseColon ==
    /\ parse_pc = "loop"
    /\ li < Len(text)
    /\ Strip(text[li + 1]) # <<>>
    /\ IsColonLine(text[li + 1])
    /\ \E col \in colors : group' = col
    /\ buf' = Append(buf, text[li + 1])
    /\ li' = li + 1
    /\ UNCHANGED <<text, cards, card, parse_pc>>

\* a line with 2 or 3 "-": a new card when what precedes the first "-" is decimal
ParseDash ==
    /\ parse_pc = "loop"
    /\ li < Len(text)
    /\ LET l == text[li + 1] IN
        /\ Strip(l) # <<>>
        /\ ~IsColonLine(l)
        /\ IsDashLine(l)
        /\ IF CheckIsDecimal(l)
           THEN /\ cards' = IF card # EmptyDict THEN Append(cards, card) ELSE cards
                /\ card' = NewCard(l, group)
           ELSE UNCHANGED <<cards, card>>
        /\ buf' = Append(buf, l)
    /\ li' = li + 1
    /\ UNCHANGED <<text, group, parse_pc>>

\* any other line: a note of the open card, when a card is open
ParseOther ==
    /\ parse_pc = "loop"
    /\ li < Len(text)
    /\ LET l == text[li + 1] IN
        /\ Strip(l) # <<>>
        /\ ~IsColonLine(l)
        /\ ~IsDashLine(l)
        /\ card' = IF card # EmptyDict THEN AppendNote(card, l) ELSE card
        /\ buf' = Append(buf, l)
    /\ li' = li + 1
    /\ UNCHANGED <<text, cards, group, parse_pc>>

\* the loop is over: return cards
ParseReturn ==
    /\ parse_pc = "loop"
    /\ li = Len(text)
    /\ parse_pc' = "returned"
    /\ UNCHANGED <<text, li, cards, card, group, buf>>


\* ------------------------------------------------------------------------
\* Levenshtein.distance
\* ------------------------------------------------------------------------
Min2(a, b) == IF a < b THEN a ELSE b

RECURSIVE LevFill(_, _, _, _, _)
\* the row of the edit-distance table for one more character ch of the first
\* string: acc holds its cells for b[1..j-1], prev is the row before
LevFill(prev, ch, b, j, acc) ==
    IF j > Len(b) THEN acc
    ELSE LET cell == Min2(Min2(prev[j + 1] + 1, acc[j] + 1),
                          prev[j] + (IF ch = b[j] THEN 0 ELSE 1))
             row == Append(acc, cell)
         IN IF Len(row) = j + 1 THEN LevFill(prev, ch, b, j + 1, row) ELSE row

RECURSIVE LevRows(_, _, _, _)
LevRows(a, b, i, prev) ==
    IF i > Len(a) THEN prev
    ELSE LET row == LevFill(prev, a[i], b, 1, <<prev[1] + 1>>)
         IN IF Len(row) = Len(prev) THEN LevRows(a, b, i + 1, row) ELSE row

distance(a, b) == LevRows(a, b, 1, [j \in 1..(Len(b) + 1) |-> j - 1])[Len(b) + 1]

\* ------------------------------------------------------------------------
\* Python dict: insertion-ordered keys and their values
\* ------------------------------------------------------------------------
NoDict == [keys |-> <<>>, val |-> <<>>]

HasKey(d, k) == \E i \in DOMAIN d.keys : d.keys[i] = k

\* d[k] = v
DictSet(d, k, v) ==
    IF HasKey(d, k)
    THEN [d EXCEPT !.val = [i \in DOMAIN d.keys |-> IF d.keys[i] = k THEN v ELSE d.val[i]]]
    ELSE [keys |-> Append(d.keys, k), val |-> Append(d.val, v)]

\* d[k] of a key d holds
DictGet(d, k) == d.val[CHOOSE i \in DOMAIN d.keys : d.keys[i] = k]

\* ------------------------------------------------------------------------
\* cheatsheet: the inputs
\* ------------------------------------------------------------------------
MakeCard(nm, rar, mana) ==
    [name |-> nm, rarity |-> rar, prices |-> "prices", mana_cost |-> mana,
     type_line |-> "type_line", rating |-> None, set |-> "set"]

\* Bolt {R}; Fire // Ice {1}{R} // {1}{U}; Island (no mana cost); Golem {2};
\* Elf {G}{G}
CardPool ==
    << MakeCard(<<"B", "o", "l", "t">>, "common", <<"{", "R", "}">>),
       MakeCard(<<"F", "i", "r", "e", " ", "/", "/", " ", "I", "c", "e">>, "uncommon",
                <<"{", "1", "}", "{", "R", "}", " ", "/", "/", " ",
                  "{", "1", "}", "{", "U", "}">>),
       MakeCard(<<"I", "s", "l", "a", "n", "d">>, "common", <<>>),
       MakeCard(<<"G", "o", "l", "e", "m">>, "rare", <<"{", "2", "}">>),
       MakeCard(<<"E", "l", "f">>, "common", <<"{", "G", "}", "{", "G", "}">>) >>

MinLen(n) == IF n < Len(CardPool) THEN n ELSE Len(CardPool)

FetchedLists == { SubSeq(CardPool, 1, n) : n \in 0..MinLen(MaxCards) }

MakeReview(nm, rt) == [name |-> nm, rating |-> rt]

\* "Bolt" 5, "bolt" 3, "Bolz" 1, "Fire" 4, "Archangel" 0, "Island" 2
ReviewPool ==
    { MakeReview(<<"B", "o", "l", "t">>, "5"),
      MakeReview(<<"b", "o", "l", "t">>, "3"),
      MakeReview(<<"B", "o", "l", "z">>, "1"),
      MakeReview(<<"F", "i", "r", "e">>, "4"),
      MakeReview(<<"A", "r", "c", "h", "a", "n", "g", "e", "l">>, "0"),
      MakeReview(<<"I", "s", "l", "a", "n", "d">>, "2") }

ReviewLists == UNION { [1..n -> ReviewPool] : n \in 0..MaxReviews }

\* ------------------------------------------------------------------------
\* cheatsheet: named, reviewed
\* ------------------------------------------------------------------------
CardKey(cd) == Lower(cd.name)

ReviewKey(rv) == rv.name

\* "//" in n
HasFaces(n) == \E k \in 1..(Len(n) - 1) : n[k] = "/" /\ n[k + 1] = "/"

\* n.split("//")[0].strip()
FirstFace(n) ==
    LET k == CHOOSE k \in 1..(Len(n) - 1) :
                 /\ n[k] = "/" /\ n[k + 1] = "/"
                 /\ \A j \in 1..(k - 1) : ~(n[j] = "/" /\ n[j + 1] = "/")
    IN Strip(SubSeq(n, 1, k - 1))

RECURSIVE NamedFrom(_, _)
\* {c.name.lower(): c for c in cards}, the cards cs added to d
NamedFrom(cs, d) ==
    IF cs = <<>> THEN d
    ELSE NamedFrom(Tail(cs), DictSet(d, CardKey(Head(cs)), Head(cs)))

RECURSIVE ReviewedFrom(_, _)
\* {r["name"]: r for r in reviews}, the entries rs added to d
ReviewedFrom(rs, d) ==
    IF rs = <<>> THEN d
    ELSE ReviewedFrom(Tail(rs), DictSet(d, ReviewKey(Head(rs)), Head(rs)))

RECURSIVE AddFirstFaces(_, _)
\* for n in list(named): if "//" in n: named[first_face] = named[n]
AddFirstFaces(ns, d) ==
    IF ns = <<>> THEN d
    ELSE AddFirstFaces(Tail(ns),
            IF HasFaces(Head(ns))
            THEN DictSet(d, FirstFace(Head(ns)), DictGet(d, Head(ns)))
            ELSE d)

BuildNamed(cs) ==
    LET byName == NamedFrom(cs, NoDict)
    IN AddFirstFaces(byName.keys, byName)

BuildReviewed(rs) == ReviewedFrom(rs, NoDict)

\* the threshold of the fuzzy match
MaxDistance == 4

\* distance(card_name, n) <= 4
IsTypoOf(card_name, n) == distance(card_name, n) <= MaxDistance

RECURSIVE RekeyTypos(_, _, _)
\* for n in named: if distance(card_name, n) <= 4: reviewed[n] = reviewed[card_name]
RekeyTypos(ns, card_name, d) ==
    IF ns = <<>> THEN d
    ELSE RekeyTypos(Tail(ns), card_name,
            IF IsTypoOf(card_name, Head(ns))
            THEN DictSet(d, Head(ns), DictGet(d, card_name))
            ELSE d)

\* card._replace(rating=r) that also keeps the old rating (a mutant of ReplaceRating)
ReplaceNothing(cd, r) == cd

\* card._replace(rating=r)
ReplaceRating(cd, r) == [cd EXCEPT !.rating = r]

SheetInit ==
    /\ reviews \in ReviewLists
    /\ fetched \in FetchedLists
    /\ named = BuildNamed(fetched)
    /\ reviewed = BuildReviewed(reviews)
    /\ todo = reviewed.keys
    /\ found = <<>>
    /\ not_found = <<>>
    /\ grouped = <<>>
    /\ sheet_pc = "reconcile"

SheetIdle ==
    /\ reviews = <<>>
    /\ fetched = <<>>
    /\ named = NoDict
    /\ reviewed = NoDict
    /\ todo = <<>>
    /\ found = <<>>
    /\ not_found = <<>>
    /\ grouped = <<>>
    /\ sheet_pc = "idle"

\* one iteration of the first `for card_name in list(reviewed)`
Reconcile ==
    /\ sheet_pc = "reconcile"
    /\ todo # <<>>
    /\ LET card_name == Head(todo)
           entry == DictGet(reviewed, card_name)
       IN IF HasKey(named, Lower(card_name))
          THEN /\ found' = Append(found, entry)
               /\ UNCHANGED <<reviewed, not_found>>
          ELSE /\ reviewed' = RekeyTypos(named.keys, card_name, reviewed)
               /\ not_found' =
                    IF \E i \in DOMAIN named.keys : IsTypoOf(card_name, named.keys[i])
                    THEN not_found
                    ELSE Append(not_found, entry)
               /\ UNCHANGED found
    /\ todo' = Tail(todo)
    /\ UNCHANGED <<reviews, fetched, named, grouped, sheet_pc>>

\* the first loop is over; the second `for card_name in list(reviewed)` starts
StartPropagate ==
    /\ sheet_pc = "reconcile"
    /\ todo = <<>>
    /\ todo' = reviewed.keys
    /\ sheet_pc' = "propagate"
    /\ UNCHANGED <<reviews, fetched, named, reviewed, found, not_found, grouped>>

\* one iteration of the second loop
Propagate ==
    /\ sheet_pc = "propagate"
    /\ todo # <<>>
    /\ LET card_name == Head(todo) IN
         named' = IF HasKey(named, Lower(card_name))
                  THEN DictSet(named, Lower(card_name),
                               ReplaceRating(DictGet(named, Lower(card_name)),
                                             DictGet(reviewed, card_name).rating))
                  ELSE named
    /\ todo' = Tail(todo)
    /\ UNCHANGED <<reviews, fetched, reviewed, found, not_found, grouped, sheet_pc>>

\* the second loop is over; group_sheet(named) starts its `for name in cards`
StartGroup ==
    /\ sheet_pc = "propagate"
    /\ todo = <<>>
    /\ todo' = named.keys
    /\ grouped' = <<>>
    /\ sheet_pc' = "group"
    /\ UNCHANGED <<reviews, fetched, named, reviewed, found, not_found>>

\* ------------------------------------------------------------------------
\* group_sheet
\* ------------------------------------------------------------------------
\* color_map, in the order the dict is written
ColorTokens == <<"B", "G", "W", "U", "R">>

ColorName(tok) ==
    CASE tok = "B" -> "Black"
      [] tok = "G" -> "Green"
      [] tok = "W" -> "White"
      [] tok = "U" -> "Blue"
      [] tok = "R" -> "Red"

\* the colour tokens of color_map that occur in the mana cost, in color_map order
TokensIn(mana) == SelectSeq(ColorTokens, LAMBDA tok : Contains(mana, tok))

\* the group with `multi` never set (a mutant of GroupOf)
GroupOfFirstColor(cd) ==
    IF cd.mana_cost = <<>> THEN "Lands"
    ELSE IF TokensIn(cd.mana_cost) # <<>> THEN ColorName(TokensIn(cd.mana_cost)[1])
    ELSE None

\* the group one card is appended to, None when it is appended to no group
GroupOf(cd) ==
    IF cd.mana_cost = <<>> THEN "Lands"
    ELSE IF Len(TokensIn(cd.mana_cost)) > 1 THEN "Multi"
    ELSE IF TokensIn(cd.mana_cost) # <<>> THEN ColorName(TokensIn(cd.mana_cost)[1])
    ELSE None

\* grouped.setdefault(g, []).append(card)
GroupAppend(gr, g, cd) ==
    IF g \in DOMAIN gr
    THEN [gr EXCEPT ![g] = Append(@, cd)]
    ELSE gr @@ (g :> <<cd>>)

\* one iteration of `for name in cards`
Group ==
    /\ sheet_pc = "group"
    /\ todo # <<>>
    /\ LET cd == DictGet(named, Head(todo)) IN
         grouped' = IF GroupOf(cd) = None THEN grouped
                    ELSE GroupAppend(grouped, GroupOf(cd), cd)
    /\ todo' = Tail(todo)
    /\ UNCHANGED <<reviews, fetched, named, reviewed, found, not_found, sheet_pc>>

\* return grouped
GroupReturn ==
    /\ sheet_pc = "group"
    /\ todo = <<>>
    /\ sheet_pc' = "grouped"
    /\ UNCHANGED <<reviews, fetched, named, reviewed, todo, found, not_found, grouped>>

SheetNext ==
    \/ Reconcile /\ UNCHANGED <<boosterVars, parseVars>>
    \/ StartPropagate /\ UNCHANGED <<boosterVars, parseVars>>
    \/ Propagate /\ UNCHANGED <<boosterVars, parseVars>>
    \/ StartGroup /\ UNCHANGED <<boosterVars, parseVars>>
    \/ Group /\ UNCHANGED <<boosterVars, parseVars>>
    \/ GroupReturn /\ UNCHANGED <<boosterVars, parseVars>>

ParseNext ==
    \/ ParseBlank /\ UNCHANGED <<boosterVars, sheetVars>>
    \/ ParseColon /\ UNCHANGED <<boosterVars, sheetVars>>
    \/ ParseDash /\ UNCHANGED <<boosterVars, sheetVars>>
    \/ ParseOther /\ UNCHANGED <<boosterVars, sheetVars>>
    \/ ParseReturn /\ UNCHANGED <<boosterVars, sheetVars>>

BoosterIdle ==
    /\ set_cards = <<>>
    /\ card_set_rarity = get_set_rarity(<<>>)
    /\ heap = BucketHeap(<<>>)
    /\ commons = None
    /\ uncommons = None
    /\ pack_cards = <<>>
    /\ c = 0
    /\ rare_type = None
    /\ rtype = -1
    /\ pc = "idle"
    /\ pidx = 0
    /\ outcome = "none"

InitParse == ParseInit /\ BoosterIdle /\ SheetIdle

InitSheet == SheetInit /\ BoosterIdle /\ ParseIdle

SpecSheet == InitSheet /\ [][SheetNext]_vars

SpecParse == InitParse /\ [][ParseNext]_vars

BoosterNext ==
    \/ CopyCommons /\ UNCHANGED <<parseVars, sheetVars>>
    \/ DrawCommon /\ UNCHANGED <<parseVars, sheetVars>>
    \/ CopyUncommons /\ UNCHANGED <<parseVars, sheetVars>>
    \/ DrawUncommon /\ UNCHANGED <<parseVars, sheetVars>>
    \/ CopyRares /\ UNCHANGED <<parseVars, sheetVars>>
    \/ RareSlot /\ UNCHANGED <<parseVars, sheetVars>>
    \/ Wildcard /\ UNCHANGED <<parseVars, sheetVars>>
    \/ NextPack /\ UNCHANGED <<parseVars, sheetVars>>

Init == BoosterInit /\ ParseIdle /\ SheetIdle

Next == BoosterNext

Spec == Init /\ [][Next]_vars

\* ========================================================================
\* Properties of the booster sampler (checked under Spec)
\* ========================================================================
CommonSlotCards == SubSeq(pack_cards, 1, IF Len(pack_cards) < CommonSlots
                                          THEN Len(pack_cards) ELSE CommonSlots)

UncommonSlotCards ==
    SubSeq(pack_cards, CommonSlots + 1,
           IF Len(pack_cards) < CommonSlots + UncommonSlots
           THEN Len(pack_cards) ELSE CommonSlots + UncommonSlots)

AllTiersNonEmpty == \A r \in Rarities : RarityBucket(set_cards, r) # <<>>

\* C1: whenever get_cards returns a pack drawn from a bucket map whose four
\* buckets are non-empty, the pack holds exactly pack_size = 14 cards.
C1_PackHasPackSize ==
    (outcome = "returned" /\ AllTiersNonEmpty) => Len(pack_cards) = pack_size

\* C2: the common-slot cards drawn so far are a sub-multiset of the common
\* bucket and the uncommon-slot cards a sub-multiset of the uncommon bucket,
\* at every point of get_cards and in every pack it returns.
C2_DrawnWithoutReplacement ==
    /\ SeqToBag(CommonSlotCards) \sqsubseteq SeqToBag(RarityBucket(set_cards, "common"))
    /\ SeqToBag(UncommonSlotCards) \sqsubseteq SeqToBag(RarityBucket(set_cards, "uncommon"))

\* C2 witness: a returned pack whose common slots hold every card named 1 of
\* a seven-card common bucket and whose uncommon slots used up a name too.
C2_Witness ==
    /\ outcome = "returned"
    /\ Len(RarityBucket(set_cards, "common")) > CommonSlots
    /\ Cardinality({i \in 1..CommonSlots : pack_cards[i].name = 1})
         = Cardinality({i \in DOMAIN set_cards :
                set_cards[i].rarity = "common" /\ set_cards[i].name = 1})
    /\ Cardinality({i \in DOMAIN UncommonSlotCards : UncommonSlotCards[i].name = 1})
         = Cardinality({i \in DOMAIN set_cards :
                set_cards[i].rarity = "uncommon" /\ set_cards[i].name = 1})

\* C3: get_cards never changes the bucket map it is given: at every point of
\* every call, returned or failed, the map has the keys and every bucket the
\* cards, in the order, get_set_rarity gave them.
C3_BucketsNeverMutated ==
    /\ DOMAIN card_set_rarity = RarityKeys(set_cards)
    /\ \A r \in DOMAIN card_set_rarity :
          heap[card_set_rarity[r]] = RarityBucket(set_cards, r)

\* C3 witness: a second call on the same map has drawn from its working copies
\* and returned.
C3_Witness ==
    /\ pidx = 1
    /\ outcome = "returned"
    /\ Len(heap[commons]) < Len(Bucket("common"))
    /\ Len(heap[uncommons]) < Len(Bucket("uncommon"))

\* C4: when a tier get_cards requires has no card in the set, no call
\* returns a pack.
C4_EmptyTierNeverReturns ==
    (~AllTiersNonEmpty) => outcome # "returned"

\* C4 witness: only the mythic tier is empty, the nine common and uncommon
\* slots were filled, and the call failed.
C4_Witness ==
    /\ RarityBucket(set_cards, "mythic") = <<>>
    /\ \A r \in Rarities \ {"mythic"} : RarityBucket(set_cards, r) # <<>>
    /\ Len(pack_cards) = CommonSlots + UncommonSlots
    /\ outcome = "KeyError"

InWildcardSlot == rtype # -1

\* C9 as stated: in a wildcard slot the roll is 9 and the tier is the rare
\* slot's, or the roll is 6..8 and the tier is uncommon, or the roll is 0..5
\* and the tier is common.
C9_TierAsStated ==
    InWildcardSlot =>
        \/ rtype = 9 /\ rare_type \in {"rare", "mythic"}
        \/ rtype \in 6..8 /\ rare_type = "uncommon"
        \/ rtype \in 0..5 /\ rare_type = "common"

\* C9 amended: in a wildcard slot the roll is 9 and the tier is the rare
\* slot's, or the roll is 6, 7, 8 or 10 and the tier is uncommon, or the roll
\* is 0..5 and the tier is common; a card drawn is a card of that tier's
\* bucket in the map.
C9_WildcardTier ==
    InWildcardSlot =>
        /\ \/ rtype = 9 /\ rare_type \in {"rare", "mythic"}
           \/ rtype \in {6, 7, 8, 10} /\ rare_type = "uncommon"
           \/ rtype \in 0..5 /\ rare_type = "common"
        /\ outcome \notin {"KeyError", "IndexError"} =>
              \E i \in DOMAIN Bucket(rare_type) :
                  pack_cards[Len(pack_cards)] = Bucket(rare_type)[i]

\* C9 witness: a pack returned whose last wildcard roll was 10.
C9_Witness ==
    /\ outcome = "returned"
    /\ rtype = 10
    /\ rare_type = "uncommon"
    /\ pack_cards[Len(pack_cards)].rarity = "uncommon"

\* ========================================================================
\* Properties of SetReview.parse (checked under SpecParse)
\* ========================================================================
\* a numbered card line: an integer, a name and a rating separated by "-",
\* with "-" used 2 or 3 times
IsNumberedLine(l) ==
    /\ Count(l, "-") \in {2, 3}
    /\ IsDecimal(Strip(Split1(l, "-")[1]))

\* a colour-group header: a colour name followed by ":"
IsColorHeader(l) == \E col \in colors : StartsWith(Lower(l), Append(col, ":"))

\* a line that is a note of the open card
IsNoteLine(l) == Strip(l) # <<>> /\ ~IsColorHeader(l) /\ ~IsNumberedLine(l)

NumberedLines(doc) == SelectSeq(doc, IsNumberedLine)

NotesOf(cd) == IF "notes" \in DOMAIN cd THEN cd.notes ELSE <<>>

\* the lines consumed since the last numbered card line
SinceOpenCard ==
    LET numbered == {k \in 1..li : IsNumberedLine(text[k])}
        last == CHOOSE k \in numbered : \A j \in numbered : j <= k
    IN SubSeq(text, last + 1, li)

\* C7: parse returns one entry per numbered card line of the document, in
\* document order, with the number, name and rating of that line; the last
\* numbered line included.
C7_OneEntryPerNumberedLine ==
    parse_pc = "returned" =>
        /\ Len(cards) = Len(NumberedLines(text))
        /\ \A k \in DOMAIN cards :
              LET l == NumberedLines(text)[k] IN
              /\ cards[k].number = Strip(Split2(l, "-")[1])
              /\ cards[k].name = Strip(Split2(l, "-")[2])
              /\ cards[k].rating = Strip(Split2(l, "-")[3])

\* C10: while a card is open its notes are, in document order, exactly the
\* non-blank lines consumed since its numbered line that are neither a
\* colour-group header nor a numbered card line.
C10_NotesOfOpenCard ==
    card # EmptyDict => NotesOf(card) = SelectSeq(SinceOpenCard, IsNoteLine)

\* ========================================================================
\* Properties of the reconciliation in cheatsheet (checked under SpecSheet)
\* ========================================================================
NamedKeys == {named.keys[i] : i \in DOMAIN named.keys}

ExactMatch(rv) == Lower(rv.name) \in NamedKeys

FuzzyMatch(rv) ==
    /\ ~ExactMatch(rv)
    /\ \E n \in NamedKeys : distance(rv.name, n) <= 4

\* the review entry resolves to the card stored under n
Resolves(rv, n) ==
    /\ n \in NamedKeys
    /\ \/ Lower(rv.name) = n
       \/ ~ExactMatch(rv) /\ distance(rv.name, n) <= 4

InList(rv, list) == \E k \in DOMAIN list : list[k] = rv

ReconcileDone == sheet_pc \in {"propagate", "group", "grouped"}

PropagateDone == sheet_pc \in {"group", "grouped"}

\* C5: after the first loop every review entry is in exactly one of found
\* and not_found: in found when its name matches exactly or within distance
\* 4, in not_found when no card name is within distance 4.
C5_FoundNotFoundPartition ==
    ReconcileDone =>
        \A i \in DOMAIN reviews :
            /\ InList(reviews[i], found) <=> (ExactMatch(reviews[i]) \/ FuzzyMatch(reviews[i]))
            /\ InList(reviews[i], not_found) <=>
                  ~(ExactMatch(reviews[i]) \/ FuzzyMatch(reviews[i]))

\* the Card fetched for the key n
FetchedCard(n) == DictGet(BuildNamed(fetched), n)

OnlyRatingDiffers(n) ==
    DictGet(named, n) = [FetchedCard(n) EXCEPT !.rating = DictGet(named, n).rating]

\* C6 as stated: after the second loop, for every review entry and every
\* card it resolved to, the stored Card has the entry's rating and otherwise
\* the fetched card's fields.
C6_RatingOfEveryResolvedEntry ==
    PropagateDone =>
        \A i \in DOMAIN reviews : \A n \in NamedKeys :
            Resolves(reviews[i], n) =>
                /\ DictGet(named, n).rating = reviews[i].rating
                /\ OnlyRatingDiffers(n)

Resolvers(n) == {i \in DOMAIN reviews : Resolves(reviews[i], n)}

\* C6 amended: after the second loop every stored Card differs from the
\* fetched card in its rating at most; a card exactly one review entry
\* resolved to has that entry's rating, a card several entries resolved to
\* has the rating of one of them, and a card no entry resolved to keeps its
\* fetched rating.
C6_RatingOfResolvedEntry ==
    PropagateDone =>
        \A n \in NamedKeys :
            /\ OnlyRatingDiffers(n)
            /\ \A i \in Resolvers(n) :
                  Resolvers(n) = {i} => DictGet(named, n).rating = reviews[i].rating
            /\ Resolvers(n) # {} =>
                  \E i \in Resolvers(n) : DictGet(named, n).rating = reviews[i].rating
            /\ Resolvers(n) = {} => DictGet(named, n).rating = FetchedCard(n).rating

\* C6 witness: one card took the rating of the only entry resolved to it by
\* exact name, another that of the only entry resolved to it by a fuzzy match.
C6_Witness ==
    /\ PropagateDone
    /\ \E n \in NamedKeys : \E i \in DOMAIN reviews :
          /\ Resolvers(n) = {i}
          /\ Lower(reviews[i].name) = n
          /\ DictGet(named, n).rating = reviews[i].rating
    /\ \E n \in NamedKeys : \E i \in DOMAIN reviews :
          /\ Resolvers(n) = {i}
          /\ Lower(reviews[i].name) # n
          /\ DictGet(named, n).rating = reviews[i].rating

\* ========================================================================
\* Properties of group_sheet (checked under SpecSheet)
\* ========================================================================
ColorTokenSet == {"B", "G", "W", "U", "R"}

TokensOccurring(cd) == {tok \in ColorTokenSet : Contains(cd.mana_cost, tok)}

\* the group the card belongs to, None for a card of no group
ExpectedGroup(cd) ==
    IF cd.mana_cost = <<>> THEN "Lands"
    ELSE IF Cardinality(TokensOccurring(cd)) > 1 THEN "Multi"
    ELSE IF Cardinality(TokensOccurring(cd)) = 1
         THEN ColorName(CHOOSE tok \in TokensOccurring(cd) : TRUE)
    ELSE None

\* how often the card is in the group g
TimesIn(cd, g) ==
    IF g \in DOMAIN grouped
    THEN Cardinality({k \in DOMAIN grouped[g] : grouped[g][k] = cd})
    ELSE 0

\* how many keys of the input map hold the card
TimesNamed(cd) == Cardinality({k \in DOMAIN named.keys : named.val[k] = cd})

GroupNames == {"Black", "Blue", "Green", "Red", "White", "Multi", "Lands"}

====
